---- MODULE Spec2Model ----
(***************************************************************************)
(* A model of src/cli/fluxcli.py: the FluxAPI client (request building,    *)
(* submission, result polling), handle_image_url (download, WebP           *)
(* conversion, output) and main's command dispatch.                        *)
(*                                                                         *)
(* One behaviour is one invocation: either a command run through main()    *)
(* or a direct call of one FluxAPI method.  The provider, the network and  *)
(* the filesystem are the environment: their answers are drawn with \E.    *)
(***************************************************************************)
EXTENDS Integers, Sequences, FiniteSets, TLC

VARIABLES
    pc,          \* position of the invocation
    entry,       \* "none" | "main" | "direct"
    cmd,         \* the command / FluxAPI method running
    http,        \* the HTTP calls made so far, in order
    task_id,     \* response.json().get('id') of the POST
    attempt,     \* get_task_result's loop counter
    sleeps,      \* number of time.sleep(2) calls made
    last,        \* the provider's answer to the latest status query
    result,      \* what get_task_result returned
    image_url,   \* what the FluxAPI method returned
    stderr,      \* the messages printed to stderr, in order
    exc,         \* the exception that ended the call, "none" if none
    exit_code,   \* main's exit status; -1 while running or for a direct call
    fs,          \* the files that exist: a function from path to content
    args,        \* the keyword arguments of the call, and what it read of its image
    h            \* handle_image_url's locals and its returned JSON

vars == <<pc, entry, cmd, http, task_id, attempt, sleeps, last, result,
          image_url, stderr, exc, exit_code, fs, args, h>>

-----------------------------------------------------------------------------
(* Python values *)

\* None for string-valued names; optional numbers are <<>> (None) or <<n>>.
None == "None"
NoNum == << >>
Some(n) == <<n>>

\* Python truthiness of a string-or-None value (`if not task_id`).
Truthy(s) == s \notin {None, ""}

\* dict.update: the keys of q override those of p.
update(p, q) ==
    [k \in (DOMAIN p) \cup (DOMAIN q) |-> IF k \in DOMAIN q THEN q[k] ELSE p[k]]

\* kwargs.get(key, default)
get(d, key, default) == IF key \in DOMAIN d THEN d[key] ELSE default

EmptyDict == [k \in {} |-> None]

-----------------------------------------------------------------------------
(* FluxAPI.__init__ *)

api_key == "key"
headers == [k \in {"X-Key"} |-> api_key]

\* the keyword arguments get_task_result gives requests.get besides params
get_result_headers == EmptyDict

\* Whether a call carries the API key as the X-Key header.
HasKey(hd) == "X-Key" \in DOMAIN hd /\ hd["X-Key"] = api_key

-----------------------------------------------------------------------------
(* The provider *)

max_attempts == 30

NonTerminal == {"Queued", "Processing"}

\* The number of distinct error texts the provider is given.
MaxErrors == 2
ErrorTexts == { "e" \o ToString(i) : i \in 1..MaxErrors }

\* The JSON bodies the result endpoint can answer with.
Answers ==
    [status : NonTerminal, sample : {None}, error : {None}]
    \cup [status : {"Ready"}, sample : {"url1", None}, error : {None}]
    \cup [status : {"failed"}, sample : {None}, error : ErrorTexts \cup {None}]

\* get_task_result's None (and `result` before it has returned)
NoAnswer == [status |-> None, sample |-> None, error |-> None]

\* The ids the generation endpoints can answer with (None: no 'id' field).
PostIds == {"id1", "", None}

\* One HTTP call: its kind, URL path, headers, body (JSON payload or query
\* parameters) and the class of its response.
Call(kind, path, hd, body, resp) ==
    [kind |-> kind, path |-> path, headers |-> hd, body |-> body, resp |-> resp]

Posts == SelectSeq(http, LAMBDA c : c.kind = "post")
Queries == SelectSeq(http, LAMBDA c : c.kind = "get_result")
Downloads == SelectSeq(http, LAMBDA c : c.kind = "download")

NonTerminalAnswers == SelectSeq(Queries, LAMBDA c : c.resp = "nonterminal")

-----------------------------------------------------------------------------
NoHandle == [stage |-> "none"]

Init ==
    /\ pc = "idle"
    /\ entry = "none"
    /\ cmd = "none"
    /\ http = << >>
    /\ task_id = None
    /\ attempt = 0
    /\ sleeps = 0
    /\ last = NoAnswer
    /\ result = NoAnswer
    /\ image_url = None
    /\ stderr = << >>
    /\ exc = "none"
    /\ exit_code = -1
    /\ fs = EmptyDict
    /\ args = EmptyDict
    /\ h = NoHandle

-----------------------------------------------------------------------------
(* Calling a Python function by keyword *)

Restrict(d, S) == [k \in (DOMAIN d) \cap S |-> d[k]]

\* Python's argument binding for a call that passes keywords `kw` only:
\* a TypeError when a keyword names no parameter and the function takes no
\* **kwargs, or when a parameter without default is not given.
Binds(sig, kw) ==
    /\ sig.varkw \/ kw \subseteq sig.params
    /\ sig.required \subseteq kw

sig_generate_image ==
    [params |-> {"prompt", "model", "width", "height", "aspect_ratio"},
     required |-> {"prompt"}, varkw |-> FALSE]

sig_inpaint ==
    [params |-> {"image_path", "prompt", "mask_shape", "position"},
     required |-> {"image_path", "prompt"}, varkw |-> FALSE]

sig_control_generate ==
    [params |-> {"control_type", "control_image", "prompt"},
     required |-> {"control_type", "control_image", "prompt"}, varkw |-> TRUE]

sig_img2img ==
    [params |-> {"image_path", "prompt", "model", "strength", "width", "height"},
     required |-> {"image_path", "prompt"}, varkw |-> FALSE]

-----------------------------------------------------------------------------
(* How a call ends *)

\* An exception leaves the FluxAPI method.  Under main it is caught by
\* `except Exception`: message to stderr, sys.exit(1).
Raise(e) ==
    /\ exc' = e
    /\ pc' = "done"
    /\ image_url' = image_url
    /\ IF entry' = "main"
       THEN /\ stderr' = Append(stderr, <<"Error during API call or processing", e>>)
            /\ exit_code' = 1
       ELSE /\ stderr' = stderr
            /\ exit_code' = exit_code

\* The FluxAPI method returns `url` (a sample URL or None): a direct call is
\* over, main goes on to `if image_url:`.
Return(url) ==
    /\ image_url' = url
    /\ pc' = IF entry' = "main" THEN "main_result" ELSE "done"

\* Mutant: the id is not checked before polling.
Submitted_NoIdCheck(id, failmsg) ==
    /\ task_id' = id
    /\ exc' = exc
    /\ exit_code' = exit_code
    /\ pc' = "polling"
    /\ image_url' = image_url
    /\ stderr' = Append(stderr, <<"Processing image...">>)

\* response.json().get('id') after the POST, shared by the four methods:
\* no id: message, return None; otherwise get_task_result starts.
Submitted(id, failmsg) ==
    /\ task_id' = id
    /\ exc' = exc
    /\ exit_code' = exit_code
    /\ IF Truthy(id)
       THEN /\ pc' = "polling"
            /\ image_url' = image_url
            /\ stderr' = Append(stderr, <<"Processing image...">>)
       ELSE /\ Return(None)
            /\ stderr' = Append(stderr, <<failmsg>>)

\* requests.post(url, json=payload, headers=hd) and the two lines after it.
\* `fail` is what the environment does to the call: "post" the request
\* raises, "json" the response is no JSON, "none" the provider answers `id`.
Post(path, payload, hd, fail, id, failmsg) ==
    CASE fail = "post" ->
            /\ http' = Append(http, Call("post", path, hd, payload, "raised"))
            /\ task_id' = task_id
            /\ Raise("RequestException")
      [] fail = "json" ->
            /\ http' = Append(http, Call("post", path, hd, payload, "nojson"))
            /\ task_id' = task_id
            /\ Raise("ValueError")
      [] OTHER ->
            /\ http' = Append(http,
                   Call("post", path, hd, payload, IF Truthy(id) THEN "id" ELSE "noid"))
            /\ Submitted(id, failmsg)

\* A failure before any request is sent.
Fails(e) ==
    /\ http' = http
    /\ task_id' = task_id
    /\ Raise(e)

PostFails == {"none", "post", "json"}

-----------------------------------------------------------------------------
(* FluxAPI.generate_image *)

\* Mutant: an unknown model falls back to the default endpoint.
endpoint_Fallback ==
    [m \in {"flux.1.1-pro", "flux.1-pro", "flux.1-dev", "flux.1.1-ultra", "flux.2"} |->
        CASE m = "flux.1-pro" -> "/v1/flux-pro"
          [] m = "flux.1-dev" -> "/v1/flux-dev"
          [] m = "flux.1.1-ultra" -> "/v1/flux-pro-1.1-ultra"
          [] OTHER -> "/v1/flux-pro-1.1"]

endpoint ==
    [m \in {"flux.1.1-pro", "flux.1-pro", "flux.1-dev", "flux.1.1-ultra"} |->
        CASE m = "flux.1.1-pro" -> "/v1/flux-pro-1.1"
          [] m = "flux.1-pro" -> "/v1/flux-pro"
          [] m = "flux.1-dev" -> "/v1/flux-dev"
          [] m = "flux.1.1-ultra" -> "/v1/flux-pro-1.1-ultra"]

\* `width or 1024`: None and 0 are falsy.
Or(v, default) == IF v = NoNum \/ v = Some(0) THEN Some(default) ELSE v

\* The width and height generate_image puts in the payload.
generate_dims(width, height, aspect_ratio) ==
    IF Truthy(aspect_ratio)
    THEN CASE aspect_ratio = "1:1" -> <<Some(1024), Some(1024)>>
           [] aspect_ratio = "4:3" -> <<Some(1024), Some(768)>>
           [] aspect_ratio = "3:4" -> <<Some(768), Some(1024)>>
           [] aspect_ratio = "16:9" -> <<Some(1024), Some(576)>>
           [] aspect_ratio = "9:16" -> <<Some(576), Some(1024)>>
           [] OTHER -> <<width, height>>
    ELSE <<Or(width, 1024), Or(height, 768)>>

\* The body of generate_image up to get_task_result, called with keywords kw.
generate_image(kw, fail, id) ==
    LET model == get(kw, "model", "flux.1.1-pro")
        width == get(kw, "width", NoNum)
        height == get(kw, "height", NoNum)
        aspect_ratio == get(kw, "aspect_ratio", None)
        dims == generate_dims(width, height, aspect_ratio)
        payload == [prompt |-> kw["prompt"], width |-> dims[1], height |-> dims[2],
                    aspect_ratio |-> IF Truthy(aspect_ratio) THEN aspect_ratio ELSE None]
    IN  /\ cmd' = "generate"
        /\ args' = kw
        /\ UNCHANGED <<attempt, sleeps, last, result, fs, h>>
        /\ IF ~Binds(sig_generate_image, DOMAIN kw) THEN Fails("TypeError")
           ELSE IF model \notin DOMAIN endpoint THEN Fails("ValueError")
           ELSE Post(endpoint[model], payload, headers, fail, id,
                     "Failed to start generation task")

-----------------------------------------------------------------------------
(* Files and images *)

\* The bytes of an input file, and their base64 text (FluxAPI.encode_image).
File(path) == <<"bytes", path>>
encode_image(content) == <<"b64", content>>

\* FluxAPI.create_mask: the filled region drawn on a black image of `size`.
\* position 'ground' ignores the shape; any shape but 'rectangle' is a disk.
create_mask(size, shape, position) ==
    [size |-> size,
     region |-> IF position = "ground" THEN "ground"
                ELSE IF shape = "rectangle" THEN "rectangle" ELSE "circle"]

\* A path is its directory, base name and extension (os.path.splitext).
Path(dir, base, ext) == [dir |-> dir, base |-> base, ext |-> ext]

mask_path == Path("", "temp_mask", ".jpg")

\* open(path, 'wb').write(content) / mask.save(path), and os.remove(path)
write(files, path, content) == update(files, [k \in {path} |-> content])
remove(files, path) == [k \in (DOMAIN files) \ {path} |-> files[k]]

-----------------------------------------------------------------------------
(* FluxAPI.inpaint *)

InpaintFails == {"none", "open", "save", "encode", "post", "json"}

\* Where inpaint leaves the filesystem: the mask is written by mask.save and
\* removed by the os.remove that follows the POST.
inpaint_files(mask, fail) ==
    CASE fail \in {"open", "save"} -> fs
      [] fail \in {"encode", "post"} -> write(fs, mask_path, mask)
      [] OTHER -> remove(write(fs, mask_path, mask), mask_path)

\* The body of inpaint up to get_task_result, called with keywords kw on an
\* image of `size`.
inpaint(kw, size, fail, id) ==
    LET mask_shape == get(kw, "mask_shape", "circle")
        position == get(kw, "position", "center")
        mask == create_mask(size, mask_shape, position)
        payload == [image |-> encode_image(File(kw["image_path"])),
                    mask |-> encode_image(mask),
                    prompt |-> kw["prompt"],
                    steps |-> Some(50),
                    guidance |-> Some(60),
                    output_format |-> "jpeg",
                    safety_tolerance |-> Some(2)]
    IN  /\ cmd' = "inpaint"
        /\ args' = kw
        /\ UNCHANGED <<attempt, sleeps, last, result, h>>
        /\ IF ~Binds(sig_inpaint, DOMAIN kw) THEN Fails("TypeError") /\ fs' = fs
           ELSE /\ fs' = inpaint_files(mask, fail)
                /\ IF fail \in {"open", "save", "encode"} THEN Fails("IOError")
                   ELSE Post("/v1/flux-pro-1.0-fill", payload, headers, fail, id,
                             "Failed to start inpaint task")

-----------------------------------------------------------------------------
(* FluxAPI.control_generate *)

endpoints ==
    [t \in {"canny", "depth", "pose"} |->
        CASE t = "canny" -> "/v1/flux-pro-1.0-canny"
          [] t = "depth" -> "/v1/flux-pro-1.0-depth"
          [] t = "pose" -> "/v1/flux-pro-1.0-pose"]

default_params ==
    [t \in {"canny", "depth", "pose"} |->
        [k \in {"guidance"} |->
            CASE t = "canny" -> Some(30)
              [] t = "depth" -> Some(15)
              [] t = "pose" -> Some(25)]]

\* The payload control_generate builds from its extra keywords.
control_payload(control_type, control_image, prompt, kwargs) ==
    update(update([prompt |-> prompt,
                   control_image |-> encode_image(File(control_image)),
                   steps |-> get(kwargs, "steps", Some(50)),
                   output_format |-> get(kwargs, "output_format", "jpeg"),
                   safety_tolerance |-> get(kwargs, "safety_tolerance", Some(2))],
                  get(default_params, control_type, EmptyDict)),
           kwargs)

ControlFails == {"none", "encode", "post", "json"}

\* The body of control_generate up to get_task_result, called with keywords kw.
control_generate(kw, fail, id) ==
    /\ cmd' = "control"
    /\ args' = kw
    /\ UNCHANGED <<attempt, sleeps, last, result, fs, h>>
    /\ IF ~Binds(sig_control_generate, DOMAIN kw) THEN Fails("TypeError")
       ELSE LET control_type == kw["control_type"]
                kwargs == Restrict(kw, (DOMAIN kw) \ sig_control_generate.params)
            IN  IF control_type \notin DOMAIN endpoints THEN Fails("ValueError")
                ELSE IF fail = "encode" THEN Fails("IOError")
                ELSE Post(endpoints[control_type],
                          control_payload(control_type, kw["control_image"],
                                          kw["prompt"], kwargs),
                          headers, fail, id, "Failed to start control task")

-----------------------------------------------------------------------------
(* FluxAPI.img2img *)

max_area == 1048576

RECURSIVE GCD(_, _)
GCD(a, b) == IF b = 0 THEN a ELSE GCD(b, a % b)

RECURSIVE IsPow2(_)
IsPow2(n) == n = 1 \/ (n > 1 /\ n % 2 = 0 /\ IsPow2(n \div 2))

\* The largest k in lo..hi with k*k <= x, by bisection (lo*lo <= x).
RECURSIVE SqrtBetween(_, _, _)
SqrtBetween(x, lo, hi) ==
    IF lo >= hi THEN lo
    ELSE LET mid == (lo + hi + 1) \div 2
         IN  IF mid * mid <= x THEN SqrtBetween(x, mid, hi)
             ELSE SqrtBetween(x, lo, mid - 1)

\* floor(sqrt(x)) for 0 <= x < 2^31 (46340 is the largest root).
ISqrt(x) == SqrtBetween(x, 0, 46340)

\* aspect_ratio = orig_height / orig_width is a double: it is the exact
\* quotient only when the reduced denominator is a power of two.
RatioIsExact(orig_width, orig_height) ==
    IsPow2(orig_width \div GCD(orig_width, orig_height))

\* int(x) of a double x computed from aspect_ratio, whose real value is n/d.
\* The doubles carry a relative error near 2^-53: for the sizes modelled
\* int(x) is the exact floor unless n/d is an integer and aspect_ratio was
\* rounded, and then the double may lie just below n/d, so int(x) is n/d or
\* n/d - 1.  Which of the two is decided by the rounding of the operands.
float_floor(n, d, exact) ==
    IF n % d = 0 /\ n # 0 /\ ~exact THEN {n \div d, (n \div d) - 1} ELSE {n \div d}

\* Mutant: the square root is rounded up instead of truncated.
int_sqrt_area_RoundedUp(orig_width, orig_height) ==
    LET x == max_area * orig_width
        k == ISqrt(x \div orig_height)
    IN  IF k * k * orig_height = x THEN {k} ELSE {k + 1}

\* int((max_area / aspect_ratio) ** 0.5): sqrt(max_area * ow / oh).
int_sqrt_area(orig_width, orig_height) ==
    LET x == max_area * orig_width
        k == ISqrt(x \div orig_height)
    IN  IF k * k * orig_height = x /\ ~RatioIsExact(orig_width, orig_height)
        THEN {k, k - 1} ELSE {k}

\* The (width, height) pairs img2img can put in the payload for a source of
\* size (orig_width, orig_height) and the given optional width and height.
img2img_dims(width, height, orig_width, orig_height) ==
    LET w0 == IF width = NoNum \/ height = NoNum THEN orig_width ELSE width[1]
        h0 == IF width = NoNum \/ height = NoNum THEN orig_height ELSE height[1]
    IN  IF w0 * h0 > max_area
        THEN UNION { { <<w, hh>> :
                         hh \in float_floor(w * orig_height, orig_width,
                                    RatioIsExact(orig_width, orig_height)) } :
                     w \in int_sqrt_area(orig_width, orig_height) }
        ELSE { <<w0, h0>> }

Img2imgFails == {"none", "open", "save", "post", "json"}

\* The body of img2img up to get_task_result, called with keywords kw on an
\* image of size `size`; `dims` is the outcome of the size computation.
img2img(kw, size, dims, fail, id) ==
    LET model == get(kw, "model", "flux.1.1-pro")
        payload == [prompt |-> kw["prompt"],
                    image |-> encode_image(<<"jpeg95", File(kw["image_path"])>>),
                    strength |-> get(kw, "strength", "0.75"),
                    width |-> Some(dims[1]),
                    height |-> Some(dims[2]),
                    guidance_scale |-> "7.5",
                    num_inference_steps |-> Some(50),
                    scheduler |-> "euler_ancestral",
                    preserve_init_image_color_profile |-> TRUE]
    IN  /\ cmd' = "img2img"
        /\ UNCHANGED <<attempt, sleeps, last, result, fs, h>>
        /\ IF ~Binds(sig_img2img, DOMAIN kw)
           THEN args' = kw /\ Fails("TypeError")
           ELSE IF model \notin DOMAIN endpoint
           THEN args' = kw /\ Fails("ValueError")
           ELSE IF fail = "open"
           THEN args' = kw /\ Fails("IOError")
           ELSE /\ args' = update(kw, [orig_width |-> size[1], orig_height |-> size[2]])
                /\ dims \in img2img_dims(get(kw, "width", NoNum), get(kw, "height", NoNum),
                                         size[1], size[2])
                /\ IF fail = "save" THEN Fails("IOError")
                   ELSE Post(endpoint[model], payload, headers, fail, id,
                             "Failed to start image-to-image task")

-----------------------------------------------------------------------------
(* FluxAPI.get_task_result *)

\* Mutant: the Ready test never matches (a misspelt status).
AnswerClass_ReadyMissed(ans) ==
    IF ans.status = "failed" THEN "failed" ELSE "nonterminal"

\* The class of an answer, as the loop tells them apart.
AnswerClass(ans) ==
    CASE ans.status = "Ready" -> "Ready"
      [] ans.status = "failed" -> "failed"
      [] OTHER -> "nonterminal"

\* Mutant: the loop runs once more (<= for <).
InBudget_Inclusive == attempt <= max_attempts

\* The loop condition of get_task_result.
InBudget == attempt < max_attempts

\* Mutant: the provider's error text is not read.
task_failed_NoText(ans) == <<"Task failed", "Unknown error">>

\* What is printed for an answer with status 'failed'.
task_failed(ans) ==
    <<"Task failed", IF ans.error = None THEN "Unknown error" ELSE ans.error>>

\* One iteration of the loop: a status query and what follows from its answer.
PollQuery ==
    /\ pc = "polling"
    /\ InBudget
    /\ UNCHANGED <<entry, cmd, task_id, image_url, exc, exit_code, fs, args, h>>
    /\ \E ans \in Answers :
        /\ http' = Append(http, Call("get_result", "/v1/get_result", get_result_headers,
                                     [id |-> task_id], AnswerClass(ans)))
        /\ last' = ans
        /\ CASE AnswerClass(ans) = "Ready" ->
                    /\ result' = ans
                    /\ pc' = "polled"
                    /\ UNCHANGED <<attempt, sleeps, stderr>>
             [] AnswerClass(ans) = "failed" ->
                    /\ result' = NoAnswer
                    /\ pc' = "polled"
                    /\ stderr' = Append(stderr, task_failed(ans))
                    /\ UNCHANGED <<attempt, sleeps>>
             [] OTHER ->
                    /\ attempt' = attempt + 1
                    /\ sleeps' = sleeps + 1
                    /\ pc' = "polling"
                    /\ UNCHANGED <<result, stderr>>

\* requests.get raises (connection error) or the body is no JSON.
PollRaises ==
    /\ pc = "polling"
    /\ InBudget
    /\ UNCHANGED <<entry, cmd, attempt, sleeps, last, result, fs, args, h>>
    /\ http' = Append(http, Call("get_result", "/v1/get_result", get_result_headers,
                                 [id |-> task_id], "raised"))
    /\ task_id' = task_id
    /\ Raise("RequestException")

\* The loop ends with the budget used up.
PollTimeout ==
    /\ pc = "polling"
    /\ ~InBudget
    /\ result' = NoAnswer
    /\ pc' = "polled"
    /\ stderr' = Append(stderr, <<"Timeout waiting for result">>)
    /\ UNCHANGED <<entry, cmd, http, task_id, attempt, sleeps, last, image_url,
                   exc, exit_code, fs, args, h>>

\* The sample URL of get_task_result's return value, None without one.
sample_of(res) ==
    IF res # NoAnswer /\ Truthy(res.sample) THEN res.sample ELSE None

\* The three lines after get_task_result in each FluxAPI method.
ApiReturn ==
    /\ pc = "polled"
    /\ UNCHANGED <<entry, cmd, http, task_id, attempt, sleeps, last, result,
                   stderr, exc, exit_code, fs, args, h>>
    /\ Return(sample_of(result))

-----------------------------------------------------------------------------
(* handle_image_url *)

NoPath == Path(None, None, None)

\* os.path.abspath: a relative path is joined to the working directory.
abspath(path) == IF path.dir = "" THEN Path("/cwd", path.base, path.ext) ELSE path

\* content_type.split('/')[-1].lower(), kept if png or gif, else jpeg.
\* A response without the header counts as image/jpeg.
save_format_of(content_type) ==
    LET original_format ==
            CASE content_type \in {"image/png", "IMAGE/PNG"} -> "png"
              [] content_type = "image/gif" -> "gif"
              [] content_type = "image/webp" -> "webp"
              [] OTHER -> "jpeg"
    IN  IF original_format \in {"png", "gif"} THEN original_format ELSE "jpeg"

ContentTypes == {"image/png", "image/webp", None}
ImageModes == {"RGB", "RGBA", "P"}

\* The mode the image is converted to before it is saved as WebP.
webp_mode(img_mode, save_format) ==
    IF img_mode = "P" \/ (save_format = "png" /\ img_mode \in {"RGBA", "LA"})
    THEN "RGBA" ELSE "RGB"

\* Whether the conversion block runs at all.
converts(output_path, fetch_base64, to_webp) ==
    to_webp /\ (output_path # NoPath \/ fetch_base64)

\* Mutant: the except block does not restore final_format.
convert_FormatKept(image_bytes, save_format, img_mode, conv) ==
    IF conv = "none"
    THEN <<"webp", <<"webp90", webp_mode(img_mode, save_format), image_bytes>>>>
    ELSE <<"webp", image_bytes>>

\* The (format, bytes) the conversion block leaves in final_format and
\* final_image_bytes.  `conv` says where Pillow raises, "none" if nowhere.
convert(image_bytes, save_format, img_mode, conv) ==
    IF conv = "none"
    THEN <<"webp", <<"webp90", webp_mode(img_mode, save_format), image_bytes>>>>
    ELSE <<save_format, image_bytes>>

\* The path the file is written to.
final_path(output_path, final_format) ==
    abspath(IF final_format = "webp"
            THEN Path(output_path.dir, output_path.base, ".webp")
            ELSE output_path)

ConvFails == {"none", "open", "convert", "save"}

\* handle_image_url(image_url, output_path, fetch_base64, to_webp), whole.
\* The environment: `fetch` (the download succeeds or raises), the response's
\* content type and image mode, `conv` (where the conversion raises) and
\* `wr` (whether creating and writing the file succeeds).
handle_image_url(url, output_path, fetch_base64, to_webp, fetch, content_type, img_mode, conv, wr) ==
    LET image_bytes == <<"bytes", url>>
        save_format == save_format_of(content_type)
        runs == converts(output_path, fetch_base64, to_webp)
        final == IF runs THEN convert(image_bytes, save_format, img_mode, conv)
                 ELSE <<save_format, image_bytes>>
        path == final_path(output_path, final[1])
        warned == IF runs /\ conv # "none"
                  THEN Append(stderr, <<"Warning: Failed to convert image to WebP">>)
                  ELSE stderr
        locals == [stage |-> "returned",
                   output_path |-> output_path, fetch_base64 |-> fetch_base64,
                   to_webp |-> to_webp, image_bytes |-> image_bytes,
                   save_format |-> save_format,
                   conv |-> IF runs THEN conv ELSE "skipped",
                   final_format |-> final[1], final_image_bytes |-> final[2]]
        exits(msgs) == /\ exit_code' = 1
                       /\ stderr' = msgs
                       /\ fs' = fs
        returns(ret) == /\ exit_code' = IF entry' = "main" THEN 0 ELSE exit_code
                        /\ stderr' = warned
                        /\ h' = update(locals, [ret |-> ret])
    IN  /\ pc' = "done"
        /\ UNCHANGED <<cmd, task_id, attempt, sleeps, last, result, exc, args>>
        /\ http' = Append(http, Call("download", url, EmptyDict, EmptyDict,
                                     IF fetch = "ok" THEN "ok" ELSE "raised"))
        /\ CASE fetch # "ok" ->
                    /\ h' = [stage |-> "exit"]
                    /\ exits(Append(stderr, <<"Error fetching image from URL", url>>))
             [] fetch = "ok" /\ output_path # NoPath /\ wr # "ok" ->
                    /\ h' = update(locals, [stage |-> "exit"])
                    /\ exits(Append(warned, <<"Error saving image">>))
             [] fetch = "ok" /\ output_path # NoPath /\ wr = "ok" ->
                    /\ fs' = write(fs, path, final[2])
                    /\ returns([status |-> "saved", path |-> path])
             [] fetch = "ok" /\ output_path = NoPath /\ fetch_base64 ->
                    /\ fs' = fs
                    /\ returns([status |-> "success", format |-> final[1],
                                data |-> encode_image(final[2])])
             [] OTHER ->
                    /\ fs' = fs
                    /\ returns([status |-> "success", url |-> url])

-----------------------------------------------------------------------------
(* main *)

Prompts == {"a red fox"}
Images == {"in.png"}
Sizes == {<<1024, 1024>>, <<2000, 1500>>, <<19, 45>>, <<961, 1024>>}
ControlChoices == {"canny", "depth", "pose"}
OutputPaths == {NoPath, Path("/out", "img", ".png"), Path("", "img", ".webp")}

\* The keyword dictionaries main passes to the FluxAPI methods.
main_generate_kw ==
    [prompt : Prompts, model : {"flux.1.1-pro"}, aspect_ratio : {"16:9", None},
     width : {NoNum, Some(512)}, height : {NoNum}]

main_img2img_kw ==
    [image_path : Images, prompt : Prompts, name : {"n"}, model : {"flux.1.1-pro"},
     strength : {"0.85"}, width : {NoNum, Some(2000)}, height : {NoNum, Some(2000)}]

main_inpaint_kw ==
    [image_path : Images, prompt : Prompts, mask_shape : {"circle"},
     position : {"center", "ground"}]

main_control_kw ==
    [type : ControlChoices, image_path : Images, prompt : Prompts,
     steps : {Some(50)}, guidance : {NoNum, Some(7)}]

MainGenerate ==
    /\ pc = "idle"
    /\ entry' = "main"
    /\ \E kw \in main_generate_kw, fail \in PostFails, id \in PostIds :
        generate_image(kw, fail, id)

MainImg2img ==
    /\ pc = "idle"
    /\ entry' = "main"
    /\ \E kw \in main_img2img_kw, size \in Sizes, fail \in Img2imgFails, id \in PostIds :
        \E dims \in img2img_dims(kw.width, kw.height, size[1], size[2]) :
            img2img(kw, size, dims, fail, id)

MainInpaint ==
    /\ pc = "idle"
    /\ entry' = "main"
    /\ \E kw \in main_inpaint_kw, size \in {<<800, 600>>},
          fail \in InpaintFails, id \in PostIds :
        inpaint(kw, size, fail, id)

MainControl ==
    /\ pc = "idle"
    /\ entry' = "main"
    /\ \E kw \in main_control_kw, fail \in ControlFails, id \in PostIds :
        control_generate(kw, fail, id)

\* `if image_url:` is false: message, sys.exit(1).
MainNoUrl ==
    /\ pc = "main_result"
    /\ ~Truthy(image_url)
    /\ pc' = "done"
    /\ exit_code' = 1
    /\ stderr' = Append(stderr, <<"Error: Command did not produce an image URL">>)
    /\ UNCHANGED <<entry, cmd, http, task_id, attempt, sleeps, last, result,
                   image_url, exc, fs, args, h>>

\* `if image_url:` is true: handle_image_url with the output arguments.
\* --output and --fetch-base64 are mutually exclusive.
MainHandle ==
    /\ pc = "main_result"
    /\ Truthy(image_url)
    /\ UNCHANGED <<entry, image_url>>
    /\ \E output_path \in OutputPaths, fetch_base64 \in BOOLEAN, to_webp \in BOOLEAN,
          fetch \in {"ok", "error"}, content_type \in ContentTypes,
          img_mode \in ImageModes, conv \in ConvFails, wr \in {"ok", "error"} :
        /\ ~(output_path # NoPath /\ fetch_base64)
        /\ handle_image_url(image_url, output_path, fetch_base64, to_webp,
                            fetch, content_type, img_mode, conv, wr)

-----------------------------------------------------------------------------
(* Direct calls of the FluxAPI methods and of handle_image_url *)

direct_generate_kw ==
    [prompt : Prompts, model : {"flux.1-dev", "flux.2"},
     aspect_ratio : {"1:1", "2:1"}, width : {Some(512)}, height : {Some(0)}]
    \cup [prompt : Prompts, width : {Some(640)}, height : {Some(0)}]

direct_img2img_kw ==
    [image_path : Images, prompt : Prompts, model : {"flux.1-pro", "flux.2"},
     width : {Some(2000)}, height : {NoNum, Some(2000)}]
    \cup [image_path : Images, prompt : Prompts, width : {Some(1024)}, height : {Some(1024)}]
    \cup [image_path : Images, prompt : Prompts]

direct_inpaint_kw ==
    [image_path : Images, prompt : Prompts, mask_shape : {"rectangle", "star"},
     position : {"center"}]
    \cup [image_path : Images, prompt : Prompts, position : {"ground"}]

direct_control_kw ==
    [control_type : ControlChoices \cup {"sketch"}, control_image : Images,
     prompt : Prompts]
    \cup [control_type : ControlChoices \cup {"sketch"}, control_image : Images,
          prompt : Prompts, guidance : {Some(7)}]
    \cup [control_type : {"depth"}, control_image : Images,
          prompt : Prompts, guidance : {Some(30)}, steps : {Some(20)}]

DirectGenerate ==
    /\ pc = "idle"
    /\ entry' = "direct"
    /\ \E kw \in direct_generate_kw, fail \in PostFails, id \in PostIds :
        generate_image(kw, fail, id)

DirectImg2img ==
    /\ pc = "idle"
    /\ entry' = "direct"
    /\ \E kw \in direct_img2img_kw, size \in Sizes, fail \in Img2imgFails, id \in PostIds :
        \E dims \in img2img_dims(get(kw, "width", NoNum), get(kw, "height", NoNum),
                                 size[1], size[2]) :
            img2img(kw, size, dims, fail, id)

DirectInpaint ==
    /\ pc = "idle"
    /\ entry' = "direct"
    /\ \E kw \in direct_inpaint_kw, size \in {<<800, 600>>},
          fail \in InpaintFails, id \in PostIds :
        inpaint(kw, size, fail, id)

DirectControl ==
    /\ pc = "idle"
    /\ entry' = "direct"
    /\ \E kw \in direct_control_kw, fail \in ControlFails, id \in PostIds :
        control_generate(kw, fail, id)

DirectHandle ==
    /\ pc = "idle"
    /\ entry' = "direct"
    /\ image_url' = "url1"
    /\ \E output_path \in OutputPaths, fetch_base64 \in BOOLEAN, to_webp \in BOOLEAN,
          fetch \in {"ok", "error"}, content_type \in ContentTypes,
          img_mode \in ImageModes, conv \in ConvFails, wr \in {"ok", "error"} :
        handle_image_url("url1", output_path, fetch_base64, to_webp,
                         fetch, content_type, img_mode, conv, wr)

-----------------------------------------------------------------------------
Next ==
    \/ MainGenerate \/ MainImg2img \/ MainInpaint \/ MainControl
    \/ DirectGenerate \/ DirectImg2img \/ DirectInpaint \/ DirectControl
    \/ DirectHandle
    \/ PollQuery \/ PollRaises \/ PollTimeout \/ ApiReturn
    \/ MainNoUrl \/ MainHandle

Spec == Init /\ [][Next]_vars

\* The invocation is one sequential thread: a step that can be taken is taken.
FairSpec == Spec /\ WF_vars(Next)

-----------------------------------------------------------------------------
(* Properties *)

Range(seq) == { seq[i] : i \in 1..Len(seq) }

\* get_task_result was called and has returned (not raised).
PollReturned == Truthy(task_id) /\ pc # "polling" /\ exc = "none"

\* No status query follows one that was answered Ready or failed.
TerminalAnswerIsLast ==
    \A i \in 1..Len(Queries) :
        Queries[i].resp \in {"Ready", "failed"} => i = Len(Queries)

\* C1: when the provider answers a non-terminal status to the first N status
\* queries and Ready to the next one (N + 1 <= 30), get_task_result has made
\* exactly N + 1 queries, makes none after the Ready answer, and returns the
\* Ready payload.
C1_ReadyAfterN ==
    /\ TerminalAnswerIsLast
    /\ last.status = "Ready" =>
        /\ PollReturned
        /\ result = last
        /\ Len(Queries) = Len(NonTerminalAnswers) + 1
        /\ Len(Queries) <= max_attempts
        /\ Queries[Len(Queries)].resp = "Ready"
    /\ (pc = "polling" /\ Len(Queries) < max_attempts) => ENABLED PollQuery

\* C1 witness: Ready is the answer to the 30th query, after 29 non-terminal ones.
C1_Witness ==
    /\ last.status = "Ready"
    /\ last.sample = "url1"
    /\ Len(NonTerminalAnswers) = max_attempts - 1
    /\ result = last
    /\ pc = "done"

\* The timeout outcome: get_task_result returned None after printing the
\* timeout message.
TimedOut ==
    /\ PollReturned
    /\ result = NoAnswer
    /\ <<"Timeout waiting for result">> \in Range(stderr)

\* C2 (safety): when every status query is answered with a non-terminal
\* status, get_task_result returns only after exactly 30 queries, with the
\* timeout outcome, and the number of queries never exceeds 30.
C2_Safety ==
    /\ Len(Queries) <= max_attempts
    /\ (PollReturned /\ last.status \in NonTerminal) =>
        /\ Len(Queries) = max_attempts
        /\ Len(NonTerminalAnswers) = max_attempts
        /\ sleeps = max_attempts
        /\ TimedOut
    /\ TimedOut => Len(NonTerminalAnswers) = max_attempts

\* C2: get_task_result always terminates; with only non-terminal answers it
\* makes exactly 30 status queries, then reports the timeout and queries no
\* more.
C2_TimeoutAfter30 ==
    /\ []C2_Safety
    /\ [][TimedOut => Queries' = Queries]_vars
    /\ (pc = "polling") ~> (pc # "polling")

\* C2 witness: the call has ended on the timeout.
C2_Witness ==
    /\ TimedOut
    /\ last.status = "Processing"
    /\ Len(Queries) = max_attempts
    /\ pc = "done"

\* C3: when the provider answers failed to the first status query,
\* get_task_result has made exactly 1 query and never slept, makes no further
\* query, and reports the failure with the provider's error message; under
\* main the invocation ends with exit status 1 and downloads nothing.
C3_FailedFirst ==
    /\ TerminalAnswerIsLast
    /\ (last.status = "failed" /\ Len(NonTerminalAnswers) = 0) =>
        /\ PollReturned
        /\ Len(Queries) = 1
        /\ sleeps = 0
        /\ result = NoAnswer
        /\ last.error # None => <<"Task failed", last.error>> \in Range(stderr)
        /\ <<"Timeout waiting for result">> \notin Range(stderr)
        /\ pc \in {"main_result", "done"} => image_url = None
        /\ (pc = "done" /\ entry = "main") => (exit_code = 1 /\ Len(Downloads) = 0)

\* C3 witness: main has ended after a first answer `failed` with message e2.
C3_Witness ==
    /\ last.status = "failed"
    /\ last.error = "e2"
    /\ Len(Queries) = 1
    /\ entry = "main"
    /\ pc = "done"

\* The status queries answered Ready with a sample URL before call number i.
ReadyBefore(i) ==
    \E j \in 1..(i - 1) : http[j].kind = "get_result" /\ http[j].resp = "Ready"

\* The files other than the inpainting mask.
OutputFiles == (DOMAIN fs) \ {mask_path}

\* C4: in one invocation of main, every status query comes after a POST that
\* returned a job id, and every download (handle_image_url) comes after a
\* status query answered Ready with a sample URL; when the job ends failed,
\* timed out or without an id, nothing is downloaded, converted or written.
C4_Ordering ==
    /\ \A i \in 1..Len(http) :
        http[i].kind = "get_result" =>
            /\ \E j \in 1..(i - 1) : http[j].kind = "post" /\ http[j].resp = "id"
            /\ Truthy(task_id)
            /\ http[i].body.id = task_id
    /\ entry = "main" =>
        /\ \A i \in 1..Len(http) :
            http[i].kind = "download" =>
                /\ ReadyBefore(i)
                /\ result.status = "Ready"
                /\ Truthy(result.sample)
                /\ http[i].path = result.sample
        /\ ~(result.status = "Ready" /\ Truthy(result.sample)) =>
            /\ Len(Downloads) = 0
            /\ h = NoHandle
            /\ OutputFiles = {}
            /\ pc = "done" => exit_code = 1

\* C4 witness: main has saved a converted image after submit, poll and download.
C4_Witness ==
    /\ entry = "main"
    /\ pc = "done"
    /\ Len(Posts) = 1
    /\ Len(Queries) = 3
    /\ Len(Downloads) = 1
    /\ h.stage = "returned"
    /\ h.final_format = "webp"
    /\ OutputFiles # {}

\* C5: every generation POST and every status query GET carries the API key
\* as the X-Key header.
C5_EveryCallCarriesKey ==
    \A i \in 1..Len(http) :
        http[i].kind \in {"post", "get_result"} => HasKey(http[i].headers)

\* The model names and control types of the command line's choices.
ModelNames == {"flux.1.1-pro", "flux.1-pro", "flux.1-dev", "flux.1.1-ultra"}
ControlTypes == {"canny", "depth", "pose"}

\* The call named an unknown model or control type.
UnsupportedMode ==
    \/ cmd \in {"generate", "img2img"} /\ get(args, "model", "flux.1.1-pro") \notin ModelNames
    \/ cmd = "control" /\ "control_type" \in DOMAIN args
                       /\ args.control_type \notin ControlTypes

\* C6: generate_image and img2img with a model outside the endpoint table,
\* and control_generate with a control type outside {canny, depth, pose},
\* raise ValueError, and no HTTP call has been made (nor a file written).
C6_UnsupportedMode ==
    UnsupportedMode =>
        /\ pc = "done"
        /\ exc = "ValueError"
        /\ http = << >>
        /\ fs = EmptyDict

\* C6 witness: img2img was called with the unknown model flux.2.
C6_Witness ==
    /\ cmd = "img2img"
    /\ args.model = "flux.2"
    /\ exc = "ValueError"
    /\ pc = "done"

\* The conversion block of handle_image_url ran and Pillow raised in it.
ConversionFailed ==
    /\ "conv" \in DOMAIN h
    /\ h.conv \in {"open", "convert", "save"}

\* C7: when conversion to WebP is requested in save or base64 mode and
\* decoding or re-encoding raises, handle_image_url does not fail for it: it
\* emits the downloaded bytes with the original (normalized) format, and in
\* save mode the path keeps its extension.  (It still exits when the file
\* itself cannot be written.)
C7_ConversionFallback ==
    ConversionFailed =>
        /\ h.to_webp /\ (h.output_path # NoPath \/ h.fetch_base64)
        /\ h.final_image_bytes = h.image_bytes
        /\ h.final_format = h.save_format
        /\ h.final_format \in {"png", "gif", "jpeg"}
        /\ h.stage = "exit" =>
            /\ h.output_path # NoPath
            /\ stderr[Len(stderr)] = <<"Error saving image">>
        /\ h.stage # "exit" =>
            /\ h.stage = "returned"
            /\ entry = "main" => exit_code = 0
            /\ IF h.output_path # NoPath
               THEN /\ h.ret = [status |-> "saved", path |-> abspath(h.output_path)]
                    /\ h.ret.path.ext = h.output_path.ext
                    /\ fs[h.ret.path] = h.image_bytes
               ELSE h.ret = [status |-> "success", format |-> h.save_format,
                             data |-> encode_image(h.image_bytes)]

\* C7 witness: a save to img.png whose conversion failed while re-encoding.
C7_Witness ==
    /\ ConversionFailed
    /\ h.conv = "save"
    /\ h.stage = "returned"
    /\ h.output_path = Path("/out", "img", ".png")
    /\ h.ret.path = Path("/out", "img", ".png")
    /\ entry = "main"

\* C8: for a control request with type canny, depth or pose the submitted
\* payload's guidance is the caller's value if one was supplied and the
\* type's default (30, 15, 25) otherwise, for direct calls of
\* control_generate and for main's control command without --guidance.
C8_ControlGuidance ==
    /\ (cmd = "control" /\ entry = "direct" /\ Len(Posts) > 0) =>
            Posts[1].body.guidance =
                IF "guidance" \in DOMAIN args THEN args.guidance
                ELSE default_params[args.control_type].guidance
    /\ (cmd = "control" /\ entry = "main" /\ exc # "IOError") =>
            /\ Len(Posts) = 1
            /\ Posts[1].body.guidance =
                IF args.guidance # NoNum THEN args.guidance
                ELSE default_params[args.type].guidance

\* C9: when the effective width*height of an img2img request exceeds
\* 1,048,576 the payload holds width = floor(sqrt(1048576 / r)) and
\* height = floor(width * r), r = orig_height / orig_width, so that
\* width*height <= 1,048,576 and height is less than one pixel below
\* width*r; otherwise the dimensions are sent unchanged.
C9_ExactFloors ==
    (cmd = "img2img" /\ Len(Posts) > 0) =>
        LET ow == args.orig_width
            oh == args.orig_height
            given == get(args, "width", NoNum) # NoNum /\ get(args, "height", NoNum) # NoNum
            w0 == IF given THEN args.width[1] ELSE ow
            h0 == IF given THEN args.height[1] ELSE oh
            w == Posts[1].body.width[1]
            hh == Posts[1].body.height[1]
        IN  IF w0 * h0 > max_area
            THEN /\ w * hh <= max_area
                 /\ w = ISqrt((max_area * ow) \div oh)
                 /\ hh = (w * oh) \div ow
                 /\ w * oh - hh * ow < ow
            ELSE w = w0 /\ hh = h0

\* C9 (amended): as C9, with the two floors taken of doubles: width is
\* floor(sqrt(1048576 / r)), or one less when that square root is an integer;
\* height is at most one pixel below width*r and never above it.
C9_FloorsWithinOnePixel ==
    (cmd = "img2img" /\ Len(Posts) > 0) =>
        LET ow == args.orig_width
            oh == args.orig_height
            given == get(args, "width", NoNum) # NoNum /\ get(args, "height", NoNum) # NoNum
            w0 == IF given THEN args.width[1] ELSE ow
            h0 == IF given THEN args.height[1] ELSE oh
            w == Posts[1].body.width[1]
            hh == Posts[1].body.height[1]
            k == ISqrt((max_area * ow) \div oh)
        IN  IF w0 * h0 > max_area
            THEN /\ w * hh <= max_area
                 /\ w = k \/ (w = k - 1 /\ k * k * oh = max_area * ow)
                 /\ hh * ow <= w * oh
                 /\ w * oh - hh * ow <= ow
                 /\ w * oh - hh * ow = ow => (w * oh) % ow = 0
            ELSE w = w0 /\ hh = h0

\* C9 witness: a 19x45 source with 2000x2000 requested is sent as 665x1574.
C9_Witness ==
    /\ cmd = "img2img"
    /\ Len(Posts) = 1
    /\ args.orig_width = 19
    /\ args.orig_height = 45
    /\ Posts[1].body.width = Some(665)
    /\ Posts[1].body.height = Some(1574)

\* C10: once an inpaint call has ended, by whichever path, the mask file it
\* wrote (temp_mask.jpg) no longer exists.
C10_MaskRemoved ==
    (cmd = "inpaint" /\ pc # "idle") => mask_path \notin DOMAIN fs

\* C11: for the img2img command run through main (with its required --name)
\* the name is dropped silently: the call into FluxAPI.img2img raises no
\* error because of it, a POST is issued (unless the image cannot be read or
\* re-encoded), and the submitted payload has no name field.
C11_NameDropped ==
    (cmd = "img2img" /\ entry = "main" /\ pc # "idle") =>
        /\ "name" \in DOMAIN args
        /\ exc # "TypeError"
        /\ exc # "IOError" =>
            /\ Len(Posts) = 1
            /\ "name" \notin DOMAIN Posts[1].body

====
